---- MODULE Spec2Model ----
(***************************************************************************)
(* Line-coding engine of LineCodingPrefinal (app.py, main.py): the four    *)
(* waveform encoders, the spectral analysis functions and the two request  *)
(* handlers /api/encode and /api/spectral-analysis.                        *)
(*                                                                         *)
(* Numeric conventions.  Samples are the integers -1, 0, 1 (the floats     *)
(* -1.0, 0.0, 1.0 of the code).  A frequency or a ratio is a pair          *)
(* <<num, den>> standing for num/den.  A magnitude is a pair <<num, den>>  *)
(* standing for sqrt(num/den), so that |X| = sqrt(P) needs no square root. *)
(* The DFT is evaluated exactly; this is possible in integer arithmetic    *)
(* for the lengths of ExactDftLengths, whose twiddle factors have          *)
(* 2*cos in Z and 2*sin in Z or Z*sqrt(3).                                 *)
(***************************************************************************)
EXTENDS Integers, Sequences, FiniteSets

VARIABLES request, response, invoked, calls, last_polarity

vars == <<request, response, invoked, calls, last_polarity>>

(* ---------------------------- bounds ----------------------------------- *)
MaxBits == 4
MaxSamples == 4
MaxDataRate == 2

\* bit values a JSON request may carry: 0, 1 and one non-binary value
BitValues == {0, 1, 2}
\* samples_per_bit values: negative, zero and positive
SampleValues == (-1) .. MaxSamples
DataRates == 1 .. MaxDataRate

BitSeqsOver(vals, n) == UNION {[1 .. k -> vals] : k \in 0 .. n}
BitSeqs == BitSeqsOver(BitValues, MaxBits)

IsBinary(bits) == \A i \in 1 .. Len(bits) : bits[i] \in {0, 1}

(* ---------------------------- numpy helpers ---------------------------- *)
\* np.zeros(n)
ZerosOneMore(n) == [j \in 1 .. n + 1 |-> 0]
Zeros(n) == [j \in 1 .. n |-> 0]

\* np.repeat(data, samples_per_bit), samples_per_bit >= 0
Repeat(data, samples_per_bit) ==
    [j \in 1 .. Len(data) * samples_per_bit |-> data[((j - 1) \div samples_per_bit) + 1]]

\* sig[start:stop] = value, 0-based half-open slice with 0 <= start
SliceFill(sig, start, stop, value) ==
    [j \in 1 .. Len(sig) |-> IF start < j /\ j <= stop THEN value ELSE sig[j]]

\* sum(seq)
RECURSIVE SumSeq(_)
SumSeq(seq) == IF seq = <<>> THEN 0 ELSE seq[1] + SumSeq(Tail(seq))

(* ---------------------------- encoders --------------------------------- *)
\* np.where(data_upsampled == 1, 1, -1)
NrzLevel(v) == IF v = 1 THEN 1 ELSE -1

encode_nrz_l(data, samples_per_bit) ==
    LET data_upsampled == Repeat(data, samples_per_bit)
    IN  [j \in 1 .. Len(data_upsampled) |-> NrzLevel(data_upsampled[j])]

\* half_bit_samples = samples_per_bit // 2
HalfBitSamplesCeil(samples_per_bit) == (samples_per_bit + 1) \div 2
HalfBitSamples(samples_per_bit) == samples_per_bit \div 2

\* body of encode_rz's loop for bit i (0-based) of value bit
RzBody(sig, i, bit, samples_per_bit) ==
    LET start_index == i * samples_per_bit
        mid_index == start_index + HalfBitSamples(samples_per_bit)
    IN  IF bit = 1
        THEN SliceFill(sig, start_index, mid_index, 1)
        ELSE SliceFill(sig, start_index, mid_index, -1)

RECURSIVE RzLoop(_, _, _, _)
RzLoop(sig, i, data, samples_per_bit) ==
    IF i >= Len(data) THEN sig
    ELSE RzLoop(RzBody(sig, i, data[i + 1], samples_per_bit), i + 1, data, samples_per_bit)

encode_rz(data, samples_per_bit) ==
    RzLoop(Zeros(Len(data) * samples_per_bit), 0, data, samples_per_bit)

\* body of encode_manchester's loop
ManchesterBodySwapped(sig, i, bit, samples_per_bit) ==
    LET start_index == i * samples_per_bit
        mid_index == start_index + HalfBitSamples(samples_per_bit)
        end_index == start_index + samples_per_bit
    IN  IF bit = 1
        THEN SliceFill(SliceFill(sig, start_index, mid_index, 1), mid_index, end_index, -1)
        ELSE SliceFill(SliceFill(sig, start_index, mid_index, -1), mid_index, end_index, 1)
ManchesterBody(sig, i, bit, samples_per_bit) ==
    LET start_index == i * samples_per_bit
        mid_index == start_index + HalfBitSamples(samples_per_bit)
        end_index == start_index + samples_per_bit
    IN  IF bit = 1
        THEN SliceFill(SliceFill(sig, start_index, mid_index, -1), mid_index, end_index, 1)
        ELSE SliceFill(SliceFill(sig, start_index, mid_index, 1), mid_index, end_index, -1)

RECURSIVE ManchesterLoop(_, _, _, _)
ManchesterLoop(sig, i, data, samples_per_bit) ==
    IF i >= Len(data) THEN sig
    ELSE ManchesterLoop(ManchesterBody(sig, i, data[i + 1], samples_per_bit),
                        i + 1, data, samples_per_bit)

encode_manchester(data, samples_per_bit) ==
    ManchesterLoop(Zeros(Len(data) * samples_per_bit), 0, data, samples_per_bit)

\* body of encode_ami's loop: st = [ami_signal, last_polarity]
AmiBodyNoFlip(st, i, bit, samples_per_bit) ==
    IF bit = 1
    THEN [ami_signal |-> SliceFill(st.ami_signal, i * samples_per_bit,
                                   i * samples_per_bit + samples_per_bit, st.last_polarity),
          last_polarity |-> st.last_polarity]
    ELSE st
AmiBody(st, i, bit, samples_per_bit) ==
    IF bit = 1
    THEN LET start_index == i * samples_per_bit
             end_index == start_index + samples_per_bit
         IN  [ami_signal |-> SliceFill(st.ami_signal, start_index, end_index, st.last_polarity),
              last_polarity |-> st.last_polarity * (-1)]
    ELSE st

\* last_polarity = 1
InitialPolarity == 1

RECURSIVE AmiLoop(_, _, _, _)
AmiLoop(st, i, data, samples_per_bit) ==
    IF i >= Len(data) THEN st
    ELSE AmiLoop(AmiBody(st, i, data[i + 1], samples_per_bit), i + 1, data, samples_per_bit)

encode_ami(data, samples_per_bit) ==
    AmiLoop([ami_signal |-> Zeros(Len(data) * samples_per_bit),
             last_polarity |-> InitialPolarity],
            0, data, samples_per_bit).ami_signal

(* ---------------------------- spectral analysis ------------------------ *)
\* signal lengths whose DFT the model evaluates exactly
ExactDftLengths == {1, 2, 3, 4, 6}

\* 2*cos(2*pi*j/n), j in 0..n-1
TwoCos(j, n) ==
    CASE n = 1 -> 2
      [] n = 2 -> <<2, -2>>[j + 1]
      [] n = 3 -> <<2, -1, -1>>[j + 1]
      [] n = 4 -> <<2, 0, -2, 0>>[j + 1]
      [] n = 6 -> <<2, 1, -1, -2, -1, 1>>[j + 1]

\* 2*sin(2*pi*j/n) / sqrt(SinRadicand(n)), j in 0..n-1
TwoSinCoef(j, n) ==
    CASE n = 1 -> 0
      [] n = 2 -> <<0, 0>>[j + 1]
      [] n = 3 -> <<0, 1, -1>>[j + 1]
      [] n = 4 -> <<0, 2, 0, -2>>[j + 1]
      [] n = 6 -> <<0, 1, 1, 0, -1, -1>>[j + 1]

SinRadicand(n) == IF n \in {3, 6} THEN 3 ELSE 1

\* np.fft.fft(signal)[k], k in 0..n-1, as 2*Re and 2*Im/sqrt(SinRadicand(n))
RECURSIVE FftPart(_, _, _, _)
FftPart(signal, k, j, sine) ==
    LET n == Len(signal)
    IN  IF j >= n THEN 0
        ELSE signal[j + 1] * (IF sine THEN -TwoSinCoef((j * k) % n, n)
                                        ELSE TwoCos((j * k) % n, n))
             + FftPart(signal, k, j + 1, sine)

\* np.abs(np.fft.fft(signal))[k] ** 2
FftPower(signal, k) ==
    LET re2 == FftPart(signal, k, 0, FALSE)
        im2 == FftPart(signal, k, 0, TRUE)
    IN  (re2 * re2 + SinRadicand(Len(signal)) * im2 * im2) \div 4

\* np.abs(fft_vals) ** 2, all n bins
PowerSpectrum(signal) == [j \in 1 .. Len(signal) |-> FftPower(signal, j - 1)]

\* np.fft.fftfreq(n, 1/sampling_rate): bin k -> k*fs/n, negative-mirrored above (n-1)//2
FftFreq(n, sampling_rate) ==
    [j \in 1 .. n |-> IF j - 1 <= (n - 1) \div 2
                      THEN <<(j - 1) * sampling_rate, n>>
                      ELSE <<(j - 1 - n) * sampling_rate, n>>]

\* arr[freqs >= 0]
RECURSIVE MaskNonNegative(_, _)
MaskNonNegative(arr, freqs) ==
    IF arr = <<>> THEN <<>>
    ELSE (IF freqs[1][1] >= 0 THEN <<arr[1]>> ELSE <<>>)
         \o MaskNonNegative(Tail(arr), Tail(freqs))

\* np.max(arr), arr non-empty
RECURSIVE MaxSeq(_)
MaxSeq(arr) ==
    IF Len(arr) = 1 THEN arr[1]
    ELSE LET m == MaxSeq(Tail(arr)) IN IF arr[1] >= m THEN arr[1] ELSE m

\* arr[:len(arr)//2]
FirstHalf(arr) == SubSeq(arr, 1, Len(arr) \div 2)

\* magnitude_positive / np.max(magnitude_positive) if np.max(...) > 0 else magnitude_positive
\* on squared magnitudes: entry <<num, den>> stands for sqrt(num/den)
Normalize(power_positive) ==
    LET peak == MaxSeq(power_positive)
    IN  [j \in 1 .. Len(power_positive) |->
            IF peak > 0 THEN <<power_positive[j], peak>> ELSE <<power_positive[j], 1>>]

\* calculate_fft: np.fft.fft raises when the signal is empty
calculate_fft(signal, sampling_rate) ==
    IF Len(signal) = 0
    THEN [raised |-> TRUE, error |-> "Invalid number of FFT data points (0) specified."]
    ELSE LET freqs == FftFreq(Len(signal), sampling_rate)
             freqs_positive == MaskNonNegative(freqs, freqs)
             power_positive == MaskNonNegative(PowerSpectrum(signal), freqs)
         IN  [raised |-> FALSE,
              freqs |-> freqs_positive,
              magnitude |-> Normalize(power_positive)]

\* nperseg=min(256, len(signal)//4)
WelchMaxSegment == 256
SegmentLength(signal) ==
    IF Len(signal) \div 4 < WelchMaxSegment THEN Len(signal) \div 4 ELSE WelchMaxSegment

\* calculate_psd: scipy's welch raises for nperseg < 1; its frequency axis is
\* rfftfreq(nperseg, 1/fs); the estimated densities are the library's and are
\* represented by their count only
calculate_psd(signal, sampling_rate) ==
    LET nperseg == SegmentLength(signal)
    IN  IF nperseg < 1
        THEN [raised |-> TRUE, error |-> "nperseg must be a positive integer"]
        ELSE [raised |-> FALSE,
              nperseg |-> nperseg,
              freqs |-> [j \in 1 .. (nperseg \div 2) + 1 |-> <<(j - 1) * sampling_rate, nperseg>>],
              psd_len |-> (nperseg \div 2) + 1]

\* np.cumsum(arr)
Cumsum(arr) == [j \in 1 .. Len(arr) |-> SumSeq(SubSeq(arr, 1, j))]

\* np.where(cumulative_power >= total_power * 0.9)[0], as 1-based indices
BandwidthIdx(cumulative_power, total_power) ==
    {j \in 1 .. Len(cumulative_power) : 10 * cumulative_power[j] >= 9 * total_power}

\* smallest element of a non-empty set of indices
MinOf(S) == CHOOSE x \in S : \A y \in S : x <= y

\* bandwidth_90 = freqs_positive[bandwidth_idx[0]] if len(bandwidth_idx) > 0 else freqs_positive[-1]
Bandwidth90(freqs_positive, power_positive) ==
    LET total_power == SumSeq(power_positive)
        bandwidth_idx == BandwidthIdx(Cumsum(power_positive), total_power)
    IN  IF bandwidth_idx # {} THEN freqs_positive[MinOf(bandwidth_idx)]
        ELSE freqs_positive[Len(freqs_positive)]

\* np.argmax(arr): 0-based index of the first maximum, arr non-empty
Argmax(arr) == MinOf({j \in 1 .. Len(arr) : arr[j] = MaxSeq(arr)}) - 1

\* calculate_spectral_efficiency_metrics; np.argmax raises on an empty array
calculate_spectral_efficiency_metrics(signal, data_rate, sampling_rate) ==
    IF Len(signal) = 0
    THEN [raised |-> TRUE, error |-> "Invalid number of FFT data points (0) specified."]
    ELSE
    LET freqs == FftFreq(Len(signal), sampling_rate)
        freqs_positive == MaskNonNegative(freqs, freqs)
        psd_positive == MaskNonNegative(PowerSpectrum(signal), freqs)
        dc_power == IF Len(psd_positive) > 0 THEN psd_positive[1] ELSE 0
        total_power == SumSeq(psd_positive)
        bandwidth_90 == Bandwidth90(freqs_positive, psd_positive)
    IN  IF Len(psd_positive) - 1 = 0
        THEN [raised |-> TRUE, error |-> "attempt to get argmax of an empty sequence"]
        ELSE LET peak_idx == Argmax(Tail(psd_positive)) + 1
             IN  [raised |-> FALSE,
                  dc_component |-> IF total_power > 0 THEN <<dc_power * 100, total_power>>
                                   ELSE <<0, 1>>,
                  bandwidth_90 |-> bandwidth_90,
                  spectral_efficiency |-> IF bandwidth_90[1] > 0
                                          THEN <<data_rate * bandwidth_90[2], bandwidth_90[1]>>
                                          ELSE <<0, 1>>,
                  peak_frequency |-> IF peak_idx < Len(freqs_positive)
                                     THEN freqs_positive[peak_idx + 1] ELSE <<0, 1>>,
                  bandwidth_efficiency |-> IF data_rate > 0
                                           THEN <<bandwidth_90[1], bandwidth_90[2] * data_rate>>
                                           ELSE <<0, 1>>,
                  total_power |-> total_power]

(* ---------------------------- request handlers ------------------------- *)
\* if not bits:
NoBitsNever(bits) == FALSE
NoBits(bits) == bits = <<>>

Encoders == <<"encode_nrz_l", "encode_rz", "encode_manchester", "encode_ami">>
Schemes == <<"nrz_l", "rz", "manchester", "ami">>

\* the signal of each scheme for one request
SignalOf(scheme, data, samples_per_bit) ==
    CASE scheme = "nrz_l" -> encode_nrz_l(data, samples_per_bit)
      [] scheme = "rz" -> encode_rz(data, samples_per_bit)
      [] scheme = "manchester" -> encode_manchester(data, samples_per_bit)
      [] scheme = "ami" -> encode_ami(data, samples_per_bit)

\* np.linspace(0, T, len(bits) * samples_per_bit, endpoint=False): sample j is j/samples_per_bit
TimeArray(bits, samples_per_bit) ==
    [j \in 1 .. Len(bits) * samples_per_bit |-> <<j - 1, samples_per_bit>>]

\* POST /api/encode: the response and the engine functions invoked, in order
encode(bits, samples_per_bit) ==
    IF NoBits(bits)
    THEN [response |-> [status |-> 400, error |-> "No bits provided"], invoked |-> <<>>]
    ELSE IF Len(bits) * samples_per_bit < 0
    THEN \* np.linspace raises ValueError; except Exception -> 500
         [response |-> [status |-> 500,
                        error |-> "Number of samples must be non-negative"],
          invoked |-> <<>>]
    ELSE [response |-> [status |-> 200,
                        time |-> TimeArray(bits, samples_per_bit),
                        original |-> Repeat(bits, samples_per_bit),
                        nrz_l |-> encode_nrz_l(bits, samples_per_bit),
                        rz |-> encode_rz(bits, samples_per_bit),
                        manchester |-> encode_manchester(bits, samples_per_bit),
                        ami |-> encode_ami(bits, samples_per_bit)],
          invoked |-> Encoders]

\* one pass of spectral_analysis's loop over the schemes, from scheme number s on;
\* acc = [raised, error, results, invoked]
RECURSIVE AnalysisLoop(_, _, _, _, _)
AnalysisLoop(acc, s, bits, samples_per_bit, data_rate) ==
    IF s > Len(Schemes) THEN acc
    ELSE
    LET name == Schemes[s]
        signal == SignalOf(name, bits, samples_per_bit)
        sampling_rate == samples_per_bit * data_rate
        fft == calculate_fft(signal, sampling_rate)
        psd == calculate_psd(signal, sampling_rate)
        metrics == calculate_spectral_efficiency_metrics(signal, data_rate, sampling_rate)
    IN  IF fft.raised
        THEN [acc EXCEPT !.raised = TRUE, !.error = fft.error,
                         !.invoked = @ \o <<"calculate_fft">>]
        ELSE IF psd.raised
        THEN [acc EXCEPT !.raised = TRUE, !.error = psd.error,
                         !.invoked = @ \o <<"calculate_fft", "calculate_psd">>]
        ELSE IF metrics.raised
        THEN [acc EXCEPT !.raised = TRUE, !.error = metrics.error,
                         !.invoked = @ \o <<"calculate_fft", "calculate_psd",
                                            "calculate_spectral_efficiency_metrics">>]
        ELSE AnalysisLoop(
                 [acc EXCEPT
                     !.results = @ \o <<[name |-> name,
                                         frequencies_fft |-> FirstHalf(fft.freqs),
                                         magnitude |-> FirstHalf(fft.magnitude),
                                         frequencies_psd |-> psd.freqs,
                                         psd_len |-> psd.psd_len,
                                         nperseg |-> psd.nperseg,
                                         metrics |-> metrics]>>,
                     !.invoked = @ \o <<"calculate_fft", "calculate_psd",
                                        "calculate_spectral_efficiency_metrics">>],
                 s + 1, bits, samples_per_bit, data_rate)

\* POST /api/spectral-analysis
spectral_analysis(bits, samples_per_bit, data_rate) ==
    IF NoBits(bits)
    THEN [response |-> [status |-> 400, error |-> "No bits provided"], invoked |-> <<>>]
    ELSE IF samples_per_bit < 0
    THEN \* np.repeat raises ValueError inside encode_nrz_l
         [response |-> [status |-> 500, error |-> "repeats may not contain negative values."],
          invoked |-> <<"encode_nrz_l">>]
    ELSE LET done == AnalysisLoop([raised |-> FALSE, error |-> "", results |-> <<>>,
                                   invoked |-> Encoders],
                                  1, bits, samples_per_bit, data_rate)
         IN  IF done.raised
             THEN [response |-> [status |-> 500, error |-> done.error],
                   invoked |-> done.invoked]
             ELSE [response |-> [status |-> 200, results |-> done.results],
                   invoked |-> done.invoked]

(* ---------------------------- concurrent encode_ami calls -------------- *)
ConcMaxBits == 3
ConcMaxSamples == 2
Calls == {"A", "B"}

\* the frame that holds a call's last_polarity: its own
SharedPolaritySlot(c) == "A"
PolaritySlot(c) == c

IdleCall == [pc |-> "idle", data |-> <<>>, samples_per_bit |-> 0, i |-> 0,
             ami_signal |-> <<>>, result |-> <<>>]

(* ---------------------------- state machine ---------------------------- *)
Init ==
    /\ request = [endpoint |-> "none"]
    /\ response = [status |-> 0]
    /\ invoked = <<>>
    /\ calls = [c \in Calls |-> IdleCall]
    /\ last_polarity = [c \in Calls |-> InitialPolarity]

\* a client posts to /api/encode and the handler runs to its response
Encode ==
    \E bits \in BitSeqs, samples_per_bit \in SampleValues :
        LET r == encode(bits, samples_per_bit)
        IN  /\ request.endpoint = "none"
            /\ request' = [endpoint |-> "encode", bits |-> bits,
                           samples_per_bit |-> samples_per_bit]
            /\ response' = r.response
            /\ invoked' = r.invoked
            /\ UNCHANGED <<calls, last_polarity>>

\* a client posts to /api/spectral-analysis and the handler runs to its response
SpectralAnalysis ==
    \E bits \in BitSeqs, samples_per_bit \in SampleValues, data_rate \in DataRates :
        /\ request.endpoint = "none"
        /\ Len(bits) * samples_per_bit \in ExactDftLengths \cup ((-MaxBits) .. 0)
        /\ LET r == spectral_analysis(bits, samples_per_bit, data_rate)
           IN  /\ request' = [endpoint |-> "spectral_analysis", bits |-> bits,
                              samples_per_bit |-> samples_per_bit, data_rate |-> data_rate]
               /\ response' = r.response
               /\ invoked' = r.invoked
        /\ UNCHANGED <<calls, last_polarity>>

\* the response is sent; the server waits for the next request
Reply ==
    /\ request.endpoint # "none"
    /\ request' = [endpoint |-> "none"]
    /\ response' = [status |-> 0]
    /\ invoked' = <<>>
    /\ UNCHANGED <<calls, last_polarity>>

Next == Encode \/ SpectralAnalysis \/ Reply

Spec == Init /\ [][Next]_vars

\* encode_ami entered: locals initialised
CallStart(c) ==
    \E data \in BitSeqsOver({0, 1}, ConcMaxBits), samples_per_bit \in 1 .. ConcMaxSamples :
        /\ calls[c].pc = "idle"
        /\ calls' = [calls EXCEPT ![c] = [pc |-> "loop", data |-> data,
                                          samples_per_bit |-> samples_per_bit, i |-> 0,
                                          ami_signal |-> Zeros(Len(data) * samples_per_bit),
                                          result |-> <<>>]]
        /\ last_polarity' = [last_polarity EXCEPT ![PolaritySlot(c)] = InitialPolarity]
        /\ UNCHANGED <<request, response, invoked>>

\* one iteration of encode_ami's loop
CallIterate(c) ==
    /\ calls[c].pc = "loop"
    /\ calls[c].i < Len(calls[c].data)
    /\ LET st == AmiBody([ami_signal |-> calls[c].ami_signal,
                          last_polarity |-> last_polarity[PolaritySlot(c)]],
                         calls[c].i, calls[c].data[calls[c].i + 1], calls[c].samples_per_bit)
       IN  /\ calls' = [calls EXCEPT ![c].ami_signal = st.ami_signal, ![c].i = @ + 1]
           /\ last_polarity' = [last_polarity EXCEPT ![PolaritySlot(c)] = st.last_polarity]
    /\ UNCHANGED <<request, response, invoked>>

\* return ami_signal.tolist()
CallReturn(c) ==
    /\ calls[c].pc = "loop"
    /\ calls[c].i >= Len(calls[c].data)
    /\ calls' = [calls EXCEPT ![c].pc = "done", ![c].result = calls[c].ami_signal]
    /\ UNCHANGED <<request, response, invoked, last_polarity>>

\* the caller takes the result; the call slot is free for the next call
CallCollect(c) ==
    /\ calls[c].pc = "done"
    /\ calls' = [calls EXCEPT ![c] = IdleCall]
    /\ UNCHANGED <<request, response, invoked, last_polarity>>

NextConcurrent ==
    \E c \in Calls : CallStart(c) \/ CallIterate(c) \/ CallReturn(c) \/ CallCollect(c)

SpecConcurrent == Init /\ [][NextConcurrent]_vars

(* ---------------------------- properties ------------------------------- *)
EncodeAnswered == request.endpoint = "encode" /\ response.status = 200
AnalysisAnswered == request.endpoint = "spectral_analysis" /\ response.status = 200
Handled == request.endpoint \in {"encode", "spectral_analysis"}

\* number of 1 bits among bits[1..i]
OnesUpTo(bits, i) == Cardinality({k \in 1 .. i : bits[k] = 1})

\* the AMI level of bit i (1-based): 0 for a 0 bit, else +1 for an odd-numbered
\* 1 bit and -1 for an even-numbered one
AmiLevel(bits, i) ==
    IF bits[i] # 1 THEN 0 ELSE IF OnesUpTo(bits, i) % 2 = 1 THEN 1 ELSE -1

AmiExpected(bits, S) == [j \in 1 .. Len(bits) * S |-> AmiLevel(bits, ((j - 1) \div S) + 1)]

\* sum of block i (1-based) of sig, blocks of S samples
BlockSum(sig, i, S) == SumSeq(SubSeq(sig, (i - 1) * S + 1, i * S))

\* C1: for binary bits and S >= 1, encode_ami gives an all-zero block for every 0
\* bit and, for the k-th 1 bit, a constant block of +1 when k is odd and -1 when k
\* is even
C1_AmiAlternates ==
    (EncodeAnswered /\ IsBinary(request.bits) /\ request.samples_per_bit >= 1) =>
        \A i \in 1 .. Len(request.bits) : \A j \in 1 .. request.samples_per_bit :
            response.ami[(i - 1) * request.samples_per_bit + j] = AmiLevel(request.bits, i)

C1_Witness ==
    /\ EncodeAnswered
    /\ request.bits = <<1, 0, 1, 1>>
    /\ request.samples_per_bit = 2
    /\ response.ami = <<1, 1, 0, 0, -1, -1, 1, 1>>

\* C2: for N >= 1 bits and S >= 1 each of the four encoders returns exactly N * S
\* samples
C2_SignalLength ==
    (EncodeAnswered /\ Len(request.bits) >= 1 /\ request.samples_per_bit >= 1) =>
        LET total == Len(request.bits) * request.samples_per_bit
        IN  /\ Len(response.nrz_l) = total
            /\ Len(response.rz) = total
            /\ Len(response.manchester) = total
            /\ Len(response.ami) = total

C2_Witness ==
    /\ EncodeAnswered
    /\ Len(request.bits) = 3
    /\ request.samples_per_bit = 4
    /\ Len(response.nrz_l) = 12
    /\ Len(response.ami) = 12

\* C3: with h = floor(S/2), RZ writes +1 (bit 1) or -1 (bit 0) to the first h
\* samples of a block and leaves the other S-h at 0; Manchester writes -1 then +1
\* (bit 1) or +1 then -1 (bit 0) to the first h and the last S-h samples; for odd
\* S the second part is one sample longer than the first
C3_HalfBitLayout ==
    (EncodeAnswered /\ IsBinary(request.bits) /\ request.samples_per_bit >= 1) =>
        LET S == request.samples_per_bit
            h == S \div 2
        IN  /\ \A i \in 1 .. Len(request.bits) : \A j \in 1 .. S :
                LET level == IF request.bits[i] = 1 THEN 1 ELSE -1
                    p == (i - 1) * S + j
                IN  /\ response.rz[p] = IF j <= h THEN level ELSE 0
                    /\ response.manchester[p] = IF j <= h THEN -level ELSE level
            /\ (S % 2 = 1 /\ request.bits # <<>>) =>
                   Cardinality({j \in 1 .. S : response.rz[j] = 0})
                       = Cardinality({j \in 1 .. S : response.rz[j] # 0}) + 1

C3_Witness ==
    /\ EncodeAnswered
    /\ request.bits = <<1, 0>>
    /\ request.samples_per_bit = 3
    /\ response.rz = <<1, 0, 0, -1, 0, 0>>
    /\ response.manchester = <<-1, 1, 1, 1, -1, -1>>

\* C4 as stated: for binary bits and every S >= 1 every Manchester block sums to 0
C4_BlocksSumToZero ==
    (EncodeAnswered /\ IsBinary(request.bits) /\ request.samples_per_bit >= 1) =>
        \A i \in 1 .. Len(request.bits) :
            BlockSum(response.manchester, i, request.samples_per_bit) = 0

\* C4 amended: a Manchester block sums to 0 when S is even; when S is odd it sums
\* to +1 for a 1 bit and to -1 for a 0 bit
C4_BlockSumByParity ==
    (EncodeAnswered /\ IsBinary(request.bits) /\ request.samples_per_bit >= 1) =>
        \A i \in 1 .. Len(request.bits) :
            BlockSum(response.manchester, i, request.samples_per_bit) =
                IF request.samples_per_bit % 2 = 0 THEN 0
                ELSE IF request.bits[i] = 1 THEN 1 ELSE -1

C4_Witness ==
    /\ EncodeAnswered
    /\ request.bits = <<1, 0, 1>>
    /\ request.samples_per_bit = 3
    /\ BlockSum(response.manchester, 1, 3) = 1
    /\ BlockSum(response.manchester, 2, 3) = -1

\* C5: both handlers answer an empty bit sequence with an error and no result,
\* before any encoder or spectral function is invoked
C5_EmptyBitsRejected ==
    (Handled /\ request.bits = <<>>) =>
        /\ response.status = 400
        /\ DOMAIN response = {"status", "error"}
        /\ invoked = <<>>

C5_Witness ==
    /\ request.endpoint = "spectral_analysis"
    /\ request.bits = <<>>
    /\ request.samples_per_bit = 2
    /\ response.status = 400

\* C6 as stated: a request with a non-binary bit value or a non-positive
\* samples_per_bit is rejected: an error, and no signal or result
C6_MalformedRejected ==
    (Handled /\ (~IsBinary(request.bits) \/ request.samples_per_bit <= 0)) =>
        /\ response.status # 200
        /\ DOMAIN response = {"status", "error"}

\* retained (non-negative-frequency) power bins and frequencies of a signal
RetainedPower(signal, fs) ==
    MaskNonNegative(PowerSpectrum(signal), FftFreq(Len(signal), fs))
RetainedFreqs(signal, fs) ==
    MaskNonNegative(FftFreq(Len(signal), fs), FftFreq(Len(signal), fs))

\* the signal a result of the answered analysis was computed from
ResultSignal(r) == SignalOf(r.name, request.bits, request.samples_per_bit)
RequestRate == request.samples_per_bit * request.data_rate

\* C7 as stated: bandwidth_90 is the lowest retained frequency at which the
\* cumulative power reaches 90% of the total power, and the highest retained
\* frequency when the total power is 0
C7_Bandwidth90 ==
    AnalysisAnswered =>
        \A s \in 1 .. Len(response.results) :
            LET r == response.results[s]
                power == RetainedPower(ResultSignal(r), RequestRate)
                freqs == RetainedFreqs(ResultSignal(r), RequestRate)
                total == SumSeq(power)
                reached == {j \in 1 .. Len(power) :
                               10 * SumSeq(SubSeq(power, 1, j)) >= 9 * total}
            IN  r.metrics.bandwidth_90 =
                    IF total = 0 THEN freqs[Len(freqs)]
                    ELSE freqs[MinOf(reached)]

\* C8 as stated: in every returned summary the magnitude array has the length of
\* frequencies_fft and is either all zeros, and then only when the un-normalized
\* maximum over the retained bins was 0, or has maximum exactly 1
C8_MagnitudeNormalized ==
    AnalysisAnswered =>
        \A s \in 1 .. Len(response.results) :
            LET r == response.results[s]
                mag == r.magnitude
                rawmax == MaxSeq(RetainedPower(ResultSignal(r), RequestRate))
            IN  /\ Len(mag) = Len(r.frequencies_fft)
                /\ \/ /\ \A j \in 1 .. Len(mag) : mag[j][1] = 0
                      /\ rawmax = 0
                   \/ /\ \E j \in 1 .. Len(mag) : mag[j][1] = mag[j][2]
                      /\ \A j \in 1 .. Len(mag) : mag[j][1] <= mag[j][2]

\* C9: in any interleaving of encode_ami calls, a finished call's signal is the
\* one its own bits and samples_per_bit determine with the polarity starting at
\* +1 (what the call returns when run alone), so two finished calls with the
\* same inputs hold the same signal
C9_CallsIndependent ==
    \A c \in Calls :
        calls[c].pc = "done" =>
            /\ calls[c].result = AmiExpected(calls[c].data, calls[c].samples_per_bit)
            /\ calls[c].result = encode_ami(calls[c].data, calls[c].samples_per_bit)
            /\ \A d \in Calls :
                   (/\ calls[d].pc = "done"
                    /\ calls[d].data = calls[c].data
                    /\ calls[d].samples_per_bit = calls[c].samples_per_bit) =>
                       calls[d].result = calls[c].result

C9_Witness ==
    /\ calls["A"].pc = "done"
    /\ calls["A"].data = <<1, 1, 1>>
    /\ calls["A"].result = <<1, -1, 1>>
    /\ calls["B"].pc = "loop"
    /\ calls["B"].data = <<1, 0, 1>>
    /\ calls["B"].i = 1

\* C10 as stated: for every non-empty binary bit sequence and S >= 1 the full
\* analysis succeeds with a summary for each of the four schemes, the Welch
\* segment length is at least 1 and the peak search has a bin to search
C10_AnalysisCompletes ==
    (/\ request.endpoint = "spectral_analysis"
     /\ request.bits # <<>>
     /\ IsBinary(request.bits)
     /\ request.samples_per_bit >= 1) =>
        /\ response.status = 200
        /\ Len(response.results) = Len(Schemes)
        /\ \A s \in 1 .. Len(response.results) :
               /\ response.results[s].nperseg >= 1
               /\ Len(RetainedPower(ResultSignal(response.results[s]), RequestRate)) - 1 >= 1

====
